---- MODULE Spec2Model ----
(***************************************************************************)
(* Model of rodio's fadeable source filter (src/source/fadeable.rs) and of *)
(* the output stream negotiation (src/stream.rs).                          *)
(*                                                                         *)
(* f32 amplitudes are modelled as exact rationals <<numerator,             *)
(* denominator>>; nanosecond quantities are integers.  The sample rates    *)
(* are chosen so that 1e9 / (sample_rate * channels) is a whole number of  *)
(* nanoseconds.                                                            *)
(***************************************************************************)
EXTENDS Integers, Sequences, FiniteSets, TLC

VARIABLES
    \* ---- Fadeable<I> and its AtomicFadeDirection ----
    direction,          \* the shared Arc<AtomicU8>
    current_direction,  \* Fadeable.current_direction
    remaining_ns,       \* Fadeable.remaining_ns
    total_ns,           \* Fadeable.total_ns
    f,                  \* Fadeable.f, a rational <<n, d>>
    sample_rate,        \* input.sample_rate()
    channels,           \* input.channels()
    pc_next,            \* position of the thread inside Fadeable::next
    seen,               \* value of the first atomic load of the running poll
    last,               \* what the last completed poll did (history)
    called,             \* change_direction has been called (history)
    redirected,         \* some poll has observed a direction change (history)
    final_store,        \* argument of the latest change_direction (history)
    recent,             \* stores since the last poll returned (history)
    racing              \* a store landed inside the running poll (history)

fadeVars == <<direction, current_direction, remaining_ns, total_ns, f,
              sample_rate, channels, pc_next, seen, last, called,
              redirected, final_store, recent, racing>>

VARIABLES
    \* ---- OutputStream::try_from_device / try_from_device_config ----
    families,       \* what device.supported_output_configs() reports
    config,         \* the preferred (given or device-default) configuration
    pc_open,        \* position inside the open operation
    cands,          \* the iterator returned by supported_output_formats
    idx,            \* position of that iterator (next candidate)
    tried,          \* configurations handed to new_output_stream_with_format
    pref_outcome,   \* outcome of the preferred configuration's build
    last_outcome,   \* outcome of the latest build attempt
    queries,        \* number of supported_output_configs() calls
    query_outcome,  \* outcome of the supported_output_configs() call
    nego,           \* what try_new_output_stream_config returned
    built,          \* number of the build attempt that succeeded, 0 if none
    result,         \* what the open operation returned
    play_outcome,   \* outcome of _stream.play()
    mixers,         \* number of dynamic mixers created so far
    out_stream,     \* the (mixer, stream) pair of the successful build
    handle_mixer,   \* the mixer the returned handle refers to, 0 if none
    fed             \* the mixers a source was added to through the handle

mixVars == <<play_outcome, mixers, out_stream, handle_mixer, fed>>

openVars == <<families, config, pc_open, cands, idx, tried, pref_outcome,
              last_outcome, queries, query_outcome, nego, built, result,
              mixVars>>

VARIABLES
    \* ---- the host and OutputStream::try_default ----
    default_device,   \* host.default_output_device(): a device, 0 for None
    output_devices,   \* host.output_devices(): outcome and enumeration
    pc_default,       \* position inside try_default
    dev_idx,          \* position of the devices iterator
    opened,           \* devices handed to try_from_device, in call order
    failed,           \* number of try_from_device calls that returned Err
    original_err,     \* the or_else closure's original_err
    first_outcome,    \* what the first try_from_device returned (history)
    latest_outcome,   \* what the latest try_from_device returned (history)
    stream_device,    \* device of the stream returned, 0 if none
    default_result    \* what try_default returned

hostVars == <<default_device, output_devices, pc_default, dev_idx, opened,
              failed, original_err, first_outcome, latest_outcome,
              stream_device, default_result>>

VARIABLES
    \* ---- a running OutputStream / GstOutputStream and its handles ----
    backend,          \* "cpal" (OutputStream) or "gst" (GstOutputStream)
    sample_format,    \* sample format of the stream's configuration
    rx_strong,        \* strong references the consumer endpoint holds
    stream_alive,     \* the stream object, owner of Arc<mixer>, exists
    callback_alive,   \* the callback that owns mixer_rx is registered
    cloned,           \* the OutputStreamHandle has been cloned
    call,             \* per handle: the play_raw call under way or last
    submitted,        \* number of sources handed to play_raw / play_once
    mixer,            \* sources inside the mixer, in order of addition
    added,            \* per source: how often it was added to the mixer
    buf,              \* what the latest callback did to its buffer
    delivered_late,   \* a callback after the drop got a sample (history)
    once              \* the latest play_once call (history)

streamVars == <<backend, sample_format, rx_strong, stream_alive, callback_alive,
                cloned, call, submitted, mixer, added, buf,
                delivered_late, once>>

vars == <<fadeVars, openVars, hostVars, streamVars>>
notFadeVars == <<openVars, hostVars, streamVars>>
notOpenVars == <<fadeVars, hostVars, streamVars>>
notHostVars == <<fadeVars, openVars, streamVars>>
notStreamVars == <<fadeVars, openVars, hostVars>>


\* ---------------------------------------------------------------------
\* Bounds
\* ---------------------------------------------------------------------
MaxDurationNs == 6
MaxFamilies == 2
MaxDevices == 2
MaxSources == 2
MaxBuffer == 2

\* ---------------------------------------------------------------------
\* FadeDirection discriminants (enum cast `as u8`)
\* ---------------------------------------------------------------------
In == 0
Out == 1
Nothing == 2
FadeDirection == {In, Out, Nothing}

NS_PER_SEC == 1000000000

\* Duration values handed to fadeable(): whole seconds and sub-second nanos.
Durations == [secs : {0}, nanos : 0..MaxDurationNs]

\* The inner sources: (sample_rate, channels) pairs.
SampleRates == {250000000, 500000000}
ChannelCounts == {1, 2}

\* Items of the inner source.  An Option is a sequence: None is <<>> and
\* Some(v) is <<v>>.
None == <<>>
Some(v) == <<v>>
Samples == {-1, 2}

\* duration.as_secs() * 1000000000 + duration.subsec_nanos()
DurationNs(d) == d.secs * NS_PER_SEC + d.nanos

\* 1000000000.0 / (sample_rate as f32 * channels as f32)
StepNs(rate, ch) == NS_PER_SEC \div (rate * ch)

\* ---- rationals -------------------------------------------------------
One == <<1, 1>>
Zero == <<0, 1>>
RatLt0(r) == r[1] < 0
RatLe0(r) == r[1] <= 0
RatGt1(r) == r[1] > r[2]
RatGe1(r) == r[1] >= r[2]
RatEq(a, b) == a[1] * b[2] = b[1] * a[2]

\* Sample::amplify(value, f) = value * f
Amplify(value, amp) == <<value * amp[1], amp[2]>>

\* self.remaining_ns = self.total_ns  (on an observed direction change)
ResetRemaining_resume(rem, total) == rem
ResetRemaining(rem, total) == total

\* the fast-path test
FastPath_strict(rem, amp) == rem < 0 /\ (RatGe1(amp) \/ RatLe0(amp))
FastPath(rem, amp) == rem <= 0 /\ (RatGe1(amp) \/ RatLe0(amp))

\* let factor = if current_direction == Out {rem/total} else {1 - rem/total}
Factor(cur, rem, total) ==
    IF cur = Out THEN <<rem, total>> ELSE <<total - rem, total>>

\* if factor < 0.0 { self.f = 0.0 }  if factor > 1.0 { self.f = 1.0 }
UpdateF_assign(amp, factor) ==
    IF RatLt0(factor) THEN Zero ELSE IF RatGt1(factor) THEN One ELSE factor
UpdateF(amp, factor) ==
    IF RatGt1(factor) THEN One ELSE IF RatLt0(factor) THEN Zero ELSE amp

\* ---------------------------------------------------------------------
\* Output stream negotiation (src/stream.rs)
\* ---------------------------------------------------------------------
HZ_44100 == 44100

\* sample rates a family may span
Rates == {8000, 44100, 48000}

\* ranks of cpal's default heuristics; a larger rank is preferred
Qualities == {1, 2}

\* cpal::SupportedStreamConfigRange: a family with a rate range; id is the
\* position in the device's report and stands for its channels and format.
FamilyAt(i) == [id : {i}, q : Qualities,
                min : Rates, max : Rates]
WellFormed(sf) == sf.min <= sf.max
FamilyLists(n) ==
    {fs \in [1..n -> UNION {FamilyAt(i) : i \in 1..n}] :
        \A i \in 1..n : fs[i].id = i /\ WellFormed(fs[i])}
DeviceReports == UNION {FamilyLists(n) : n \in 0..MaxFamilies}

\* cpal::SupportedStreamConfig; fam = 0 is a configuration that comes from
\* the caller or from default_output_config()
PreferredConfigs == [fam : {0}, rate : Rates]

\* outcomes of device.build_output_stream, stream.play and the queries
BuildErrors == {"DeviceNotAvailable", "StreamConfigNotSupported"}
BuildOutcomes == {"ok"} \cup BuildErrors
QueryOutcomes == {"ok", "BackendSpecific"}

Pending == [tag |-> "Pending", kind |-> "", detail |-> ""]
Ok == [tag |-> "Ok", kind |-> "", detail |-> ""]
Err(kind, detail) == [tag |-> "Err", kind |-> kind, detail |-> detail]

\* a.cmp_default_heuristics(b): -1 Less, 0 Equal, 1 Greater
CmpDefaultHeuristics(a, b) ==
    IF a.q < b.q THEN -1 ELSE IF a.q > b.q THEN 1 ELSE 0

\* the comparator handed to sort_by: |a, b| b.cmp_default_heuristics(a)
SortCompare(a, b) == CmpDefaultHeuristics(b, a)

\* Vec::sort_by, a stable sort: x goes behind every element that does not
\* compare Greater than x
RECURSIVE InsertStable(_, _)
InsertStable(sorted, x) ==
    IF sorted = <<>> THEN <<x>>
    ELSE IF SortCompare(Head(sorted), x) <= 0
         THEN <<Head(sorted)>> \o InsertStable(Tail(sorted), x)
         ELSE <<x>> \o sorted

RECURSIVE SortBy(_)
SortBy(fs) ==
    IF fs = <<>> THEN <<>>
    ELSE InsertStable(SortBy(SubSeq(fs, 1, Len(fs) - 1)), fs[Len(fs)])

\* the flat_map closure: max rate, 44100 if strictly inside, min rate
FormatsOf_inclusive(sf) ==
    <<[fam |-> sf.id, rate |-> sf.max]>>
    \o (IF HZ_44100 <= sf.max /\ HZ_44100 >= sf.min
        THEN <<[fam |-> sf.id, rate |-> HZ_44100]>> ELSE <<>>)
    \o <<[fam |-> sf.id, rate |-> sf.min]>>
FormatsOf(sf) ==
    <<[fam |-> sf.id, rate |-> sf.max]>>
    \o (IF HZ_44100 < sf.max /\ HZ_44100 > sf.min
        THEN <<[fam |-> sf.id, rate |-> HZ_44100]>> ELSE <<>>)
    \o <<[fam |-> sf.id, rate |-> sf.min]>>

RECURSIVE FlatMap(_)
FlatMap(fs) ==
    IF fs = <<>> THEN <<>> ELSE FormatsOf(Head(fs)) \o FlatMap(Tail(fs))

\* supported_output_formats(device); q is the outcome of
\* device.supported_output_configs() and fs what it reports
SupportedOutputFormats_lenient(q, fs) ==
    [res |-> Ok, list |-> FlatMap(SortBy(fs))]
SupportedOutputFormats_dedicated(q, fs) ==
    IF q # "ok" THEN [res |-> Err("SupportedStreamConfigsError", q),
                      list |-> <<>>]
    ELSE IF fs = <<>> THEN [res |-> Err("NoSupportedConfigs", ""),
                            list |-> <<>>]
    ELSE [res |-> Ok, list |-> FlatMap(SortBy(fs))]
SupportedOutputFormats(q, fs) ==
    IF q # "ok" THEN [res |-> Err("SupportedStreamConfigsError", q),
                      list |-> <<>>]
    ELSE [res |-> Ok, list |-> FlatMap(SortBy(fs))]

\* Result::or_else: the fallback closure runs on Err only
NeedsFallback_always(r) == TRUE
NeedsFallback(r) == r # "ok"

\* find_map(|format| build(format).ok()): stops at the first Some
FindMapStops_never(r) == FALSE
FindMapStops(r) == r = "ok"

\* the iterator advances by one candidate per failed attempt
NextIndex_giveup(i, n) == n + 1
NextIndex(i, n) == i + 1

\* .ok_or(StreamError::BuildStreamError(err)): err is the original error
ExhaustedError_last(orig, latest) == Err("BuildStreamError", latest)
ExhaustedError(orig, latest) == Err("BuildStreamError", orig)

\* ---------------------------------------------------------------------
\* Sample formats and the output callback (src/stream.rs, gst_stream.rs)
\* ---------------------------------------------------------------------
FloatFormats == {"F32", "F64"}
SignedFormats == {"I8", "I16", "I32", "I64"}
UnsignedFormats == {"U8", "U16", "U32", "U64"}
SampleFormats == FloatFormats \cup SignedFormats \cup UnsignedFormats

Bits(fmt) ==
    CASE fmt \in {"I8", "U8"} -> 8
      [] fmt \in {"I16", "U16"} -> 16
      [] fmt \in {"I32", "U32", "F32"} -> 32
      [] OTHER -> 64

\* An integer sample of a w-bit format is the pair <<q, r>> that stands
\* for q * 2^(w-8) + r, so that 64-bit values stay representable; a
\* floating-point sample s is <<s, 0>>.
Pow2(n) == IF n = 0 THEN 1 ELSE 256
Concrete(fmt, v) == v[1] * Pow2(Bits(fmt) - 8) + v[2]

\* T::MAX of an unsigned format, 2^w - 1
TMax(fmt) == <<256, -1>>
\* integer division by two of an even multiple plus r
Half(v) == <<v[1] \div 2, v[2] \div 2>>

\* the value of unwrap_or(..) in the callback of each format
Silence_zero(fmt) == <<0, 0>>
Silence(fmt) ==
    IF fmt \in UnsignedFormats THEN Half(TMax(fmt)) ELSE <<0, 0>>

\* cpal::Sample::from_sample::<f32>(s) for a whole-numbered s: scale by
\* 2^(w-1), saturate, and offset the unsigned formats by 2^(w-1)
SignedFromSample(s) ==
    IF s >= 1 THEN <<128, -1>> ELSE IF s <= -1 THEN <<-128, 0>> ELSE <<0, 0>>
FromSample(fmt, s) ==
    IF fmt \in FloatFormats THEN <<s, 0>>
    ELSE IF fmt \in SignedFormats THEN SignedFromSample(s)
    ELSE <<SignedFromSample(s)[1] + 128, SignedFromSample(s)[2]>>

\* *d = mixer_rx.next().map(Sample::from_sample).unwrap_or(silence)
WriteSlot(fmt, item) ==
    IF item = None THEN Silence(fmt) ELSE FromSample(fmt, item[1])

\* ---- the dynamic mixer, by its interface ----
\* a source is [id, samples]; ProducerSide.add(source)
MixerAdd(m, src) == Append(m, src)

RECURSIVE SumHeads(_)
SumHeads(m) ==
    IF m = <<>> THEN 0 ELSE Head(m).samples[1] + SumHeads(Tail(m))

RECURSIVE Advance(_)
Advance(m) ==
    IF m = <<>> THEN <<>>
    ELSE (IF Len(Head(m).samples) > 1
          THEN <<[id |-> Head(m).id, samples |-> Tail(Head(m).samples)]>>
          ELSE <<>>) \o Advance(Tail(m))

\* ConsumerSide.next(): the mix of the sources' next samples, None when
\* no source is playing
MixerNext(m) ==
    IF m = <<>> THEN [item |-> None, mixer |-> m]
    ELSE [item |-> Some(SumHeads(m)), mixer |-> Advance(m)]

\* data.iter_mut().for_each(..): n polls of the consumer, in slot order
RECURSIVE PollSlots(_, _)
PollSlots(m, n) ==
    IF n = 0 THEN [polls |-> <<>>, mixer |-> m]
    ELSE LET r == MixerNext(m)
             rest == PollSlots(r.mixer, n - 1)
         IN  [polls |-> <<r.item>> \o rest.polls, mixer |-> rest.mixer]

\* sources callers submit
SourceSamples == {-1, 1}
SourceBodies == {<<s>> : s \in SourceSamples}

\* the handle try_from_device returns, and a clone of it
Handles == {"handle", "clone"}
LiveHandles(c) == IF c THEN Handles ELSE {"handle"}

\* strong references to the mixer: the stream object, the consumer
\* endpoint inside the registered callback, upgraded handles in play_raw
Strong(alive, cb, rx, calls) ==
    (IF alive THEN 1 ELSE 0) + (IF cb THEN rx ELSE 0)
    + Cardinality({h \in DOMAIN calls : calls[h].state = "upgraded"})

\* self.mixer.upgrade().ok_or(PlayError::NoDevice)
Upgrade(strong) == strong > 0

\* Decoder::new(input): Err(DecoderError) for input that does not decode
DecoderNew(decodable) == IF decodable THEN "Ok" ELSE "DecoderError"
\* Sink::try_new(handle): hands the sink's queue to handle.play_raw and
\* passes its error on
SinkTryNew(strong) == IF Upgrade(strong) THEN "Ok" ELSE "NoDevice"

\* play_once: Decoder::new(input)? then Sink::try_new(self)? then Ok
PlayOnceResult_devicefirst(decodable, strong) ==
    IF SinkTryNew(strong) # "Ok" THEN SinkTryNew(strong)
    ELSE DecoderNew(decodable)
PlayOnceResult(decodable, strong) ==
    IF DecoderNew(decodable) # "Ok" THEN DecoderNew(decodable)
    ELSE SinkTryNew(strong)

NoCall == [state |-> "idle", id |-> 0, late |-> FALSE, overlap |-> FALSE,
           ret |-> "none"]
NoBuf == [n |-> 0, polls |-> <<>>, data |-> <<>>]
NoOnce == [ret |-> "none", decodable |-> FALSE, late |-> FALSE,
           overlap |-> FALSE]

\* no stream under consideration
StreamIdle ==
    /\ backend = "off"
    /\ sample_format = "F32"
    /\ rx_strong = 0
    /\ stream_alive = FALSE
    /\ callback_alive = FALSE
    /\ cloned = FALSE
    /\ call = [h \in Handles |-> NoCall]
    /\ submitted = 0
    /\ mixer = <<>>
    /\ added = [i \in 1..MaxSources |-> 0]
    /\ buf = NoBuf
    /\ delivered_late = FALSE
    /\ once = NoOnce

\* dynamic_mixer::mixer(..) is called anew in every
\* new_output_stream_with_format: mixers are numbered in creation order
NewMixer(n) == n + 1

\* .map(|stream| (mixer_tx, stream)): the producer side of mixer m with
\* the stream whose callback owns the consumer side of m
BuiltPair(m) == [mixer |-> m, polled |-> m]
NoPair == [mixer |-> 0, polled |-> 0]

\* OutputStreamHandle { mixer: Arc::downgrade(&out.mixer) }
Downgrade_first(pair) == 1
Downgrade(pair) == pair.mixer

\* _stream.play().map_err(StreamError::PlayStreamError)?
PlayResult(r) == IF r = "ok" THEN Ok ELSE Err("PlayStreamError", r)

\* no try_default call under way
HostIdle ==
    /\ default_device = 0
    /\ output_devices = [res |-> "ok", list |-> <<>>]
    /\ pc_default = "off"
    /\ dev_idx = 1
    /\ opened = <<>>
    /\ failed = 0
    /\ original_err = Pending
    /\ first_outcome = Pending
    /\ latest_outcome = Pending
    /\ stream_device = 0
    /\ default_result = Pending

\* no open operation under way (the fade filter is considered alone)
OpenIdle ==
    /\ families = <<>>
    /\ config = [fam |-> 0, rate |-> HZ_44100]
    /\ pc_open = "off"
    /\ cands = <<>>
    /\ idx = 1
    /\ tried = <<>>
    /\ pref_outcome = "none"
    /\ last_outcome = "none"
    /\ queries = 0
    /\ query_outcome = "none"
    /\ nego = Pending
    /\ built = 0
    /\ result = Pending
    /\ play_outcome = "none"
    /\ mixers = 0
    /\ out_stream = NoPair
    /\ handle_mixer = 0
    /\ fed = {}

\* stores since the last poll returned: any says that there was one,
\* superseded that the store before the latest one had another value
NoStores == [any |-> FALSE, superseded |-> FALSE]
Stored(r, before, d) ==
    [any |-> TRUE, superseded |-> (r.any /\ before # d)]

NoPoll == [path |-> "none", diff |-> FALSE, rem_start |-> 0, rem_used |-> 0,
           adopted |-> Nothing, in |-> None, out |-> None,
           superseded |-> FALSE,
           raced |-> FALSE]

\* AtomicU8::store(direction as u8, Relaxed): the cell is overwritten
Store_max(old, d) == IF d > old THEN d ELSE old
Store(old, d) == d


\* fadeable(input, duration)
InitFade ==
    /\ \E d \in Durations :
         /\ remaining_ns = DurationNs(d)
         /\ total_ns = DurationNs(d)
    /\ sample_rate \in SampleRates
    /\ channels \in ChannelCounts
    /\ f = One
    /\ direction = Nothing
    /\ current_direction = Nothing
    /\ pc_next = "idle"
    /\ seen = Nothing
    /\ last = NoPoll
    /\ called = FALSE
    /\ redirected = FALSE
    /\ final_store = Nothing
    /\ recent = NoStores
    /\ racing = FALSE
    /\ OpenIdle
    /\ HostIdle
    /\ StreamIdle

\* AtomicFadeDirection::change_direction(direction), from any thread
ChangeDirection(d) ==
    /\ pc_next # "off"
    /\ direction' = Store(direction, d)
    /\ called' = TRUE
    /\ final_store' = d
    /\ recent' = Stored(recent, final_store, d)
    /\ racing' = (racing \/ pc_next = "loaded")
    /\ UNCHANGED <<current_direction, remaining_ns, total_ns, f, sample_rate,
                   channels, pc_next, seen, last, redirected, notFadeVars>>

\* Fadeable::next, first atomic load: the value compared with
\* current_direction
NextLoad ==
    /\ pc_next = "idle"
    /\ seen' = direction
    /\ pc_next' = "loaded"
    /\ racing' = FALSE
    /\ UNCHANGED <<direction, current_direction, remaining_ns, total_ns, f,
                   sample_rate, channels, last, called, redirected,
                   final_store, recent, notFadeVars>>

\* Fadeable::next, from the comparison to the return; v is input.next().
\* The second atomic load (the value adopted) reads the cell at this step.
NextRun(v) ==
    LET diff == seen # current_direction
        rem1 == IF diff THEN ResetRemaining(remaining_ns, total_ns)
                        ELSE remaining_ns
        cur1 == IF diff THEN direction ELSE current_direction
        fast == FastPath(rem1, f)
        f1   == IF fast THEN f ELSE UpdateF(f, Factor(cur1, rem1, total_ns))
        rem2 == IF fast THEN rem1 ELSE rem1 - StepNs(sample_rate, channels)
    IN  /\ pc_next = "loaded"
        /\ current_direction' = cur1
        /\ remaining_ns' = rem2
        /\ f' = f1
        /\ last' = [path |-> IF fast THEN "fast" ELSE "ramp",
                    diff |-> diff,
                    rem_start |-> remaining_ns,
                    rem_used |-> rem1,
                    adopted |-> cur1,
                    in |-> v,
                    out |-> IF v = None THEN None
                            ELSE Some(Amplify(v[1], f1)),
                    superseded |-> recent.superseded,
                    raced |-> racing]
        /\ pc_next' = "idle"
        /\ redirected' = (redirected \/ diff)
        /\ recent' = NoStores
        /\ racing' = FALSE
        /\ UNCHANGED <<direction, total_ns, sample_rate, channels, seen,
                       called, final_store, notFadeVars>>

\* the Fadeable is dropped; the control handle keeps its own Arc of the cell
DropFadeable ==
    /\ pc_next = "idle"
    /\ pc_next' = "dropped"
    /\ UNCHANGED <<direction, current_direction, remaining_ns, total_ns, f,
                   sample_rate, channels, seen, last, called, redirected,
                   final_store, recent, racing, notFadeVars>>

NextFade ==
    \/ \E d \in FadeDirection : ChangeDirection(d)
    \/ NextLoad
    \/ DropFadeable
    \/ \E v \in {None} \cup {Some(x) : x \in Samples} : NextRun(v)

SpecFade == InitFade /\ [][NextFade]_vars

\* ---------------------------------------------------------------------
\* Opening an output stream on one device
\* ---------------------------------------------------------------------
\* no fade filter under way (the open operation is considered alone)
FadeIdle ==
    /\ direction = Nothing /\ current_direction = Nothing
    /\ remaining_ns = 0 /\ total_ns = 0 /\ f = One
    /\ sample_rate = 250000000 /\ channels = 1
    /\ pc_next = "off" /\ seen = Nothing /\ last = NoPoll
    /\ called = FALSE /\ redirected = FALSE
    /\ final_store = Nothing /\ recent = NoStores /\ racing = FALSE

InitOpen ==
    /\ FadeIdle
    /\ HostIdle
    /\ StreamIdle
    /\ families \in DeviceReports
    /\ config \in PreferredConfigs
    /\ pc_open = "start"
    /\ cands = <<>>
    /\ idx = 1
    /\ tried = <<>>
    /\ pref_outcome = "none"
    /\ last_outcome = "none"
    /\ queries = 0
    /\ query_outcome = "none"
    /\ nego = Pending
    /\ built = 0
    /\ result = Pending
    /\ play_outcome = "none"
    /\ mixers = 0
    /\ out_stream = NoPair
    /\ handle_mixer = 0
    /\ fed = {}

\* OutputStream::try_from_device: r is device.default_output_config()
TryFromDevice(r) ==
    /\ pc_open = "start"
    /\ IF r = "ok"
       THEN /\ pc_open' = "build"
            /\ result' = result
       ELSE /\ pc_open' = "done"
            /\ result' = Err("DefaultStreamConfigError", r)
    /\ UNCHANGED <<families, config, cands, idx, tried, pref_outcome,
                   last_outcome, queries, query_outcome, nego, built,
                   mixVars, notOpenVars>>

\* OutputStream::try_from_device_config(device, config)
TryFromDeviceConfig ==
    /\ pc_open = "start"
    /\ pc_open' = "build"
    /\ UNCHANGED <<families, config, cands, idx, tried, pref_outcome,
                   last_outcome, queries, query_outcome, nego, built, result,
                   mixVars, notOpenVars>>

\* try_new_output_stream_config: self.new_output_stream_with_format(config)
\* with outcome r, then or_else
BuildPreferred(r) ==
    /\ pc_open = "build"
    /\ tried' = Append(tried, config)
    /\ pref_outcome' = r
    /\ last_outcome' = r
    /\ built' = IF r = "ok" THEN Len(tried) + 1 ELSE built
    /\ mixers' = NewMixer(mixers)
    /\ out_stream' = IF r = "ok" THEN BuiltPair(mixers') ELSE out_stream
    /\ IF NeedsFallback(r)
       THEN pc_open' = "query" /\ nego' = nego
       ELSE pc_open' = "play" /\ nego' = Ok
    /\ UNCHANGED <<families, config, cands, idx, queries, query_outcome,
                   result, play_outcome, handle_mixer, fed, notOpenVars>>

\* supported_output_formats(self)?  with q the outcome of the device query
QuerySupported(q) ==
    LET sof == SupportedOutputFormats(q, families)
    IN  /\ pc_open = "query"
        /\ queries' = queries + 1
        /\ query_outcome' = q
        /\ IF sof.res = Ok
           THEN /\ cands' = sof.list
                /\ idx' = 1
                /\ pc_open' = "cands"
                /\ UNCHANGED <<nego, result>>
           ELSE /\ pc_open' = "done"
                /\ nego' = sof.res
                /\ result' = sof.res
                /\ UNCHANGED <<cands, idx>>
        /\ UNCHANGED <<families, config, tried, pref_outcome, last_outcome,
                       built, mixVars, notOpenVars>>

\* one step of find_map: build the next candidate, outcome r
TryCandidate(r) ==
    /\ pc_open = "cands"
    /\ idx <= Len(cands)
    /\ tried' = Append(tried, cands[idx])
    /\ last_outcome' = r
    /\ built' = IF r = "ok" THEN Len(tried) + 1 ELSE built
    /\ mixers' = NewMixer(mixers)
    /\ out_stream' = IF r = "ok" THEN BuiltPair(mixers') ELSE out_stream
    /\ IF FindMapStops(r)
       THEN /\ pc_open' = "play"
            /\ nego' = Ok
            /\ idx' = idx
       ELSE /\ pc_open' = "cands"
            /\ nego' = nego
            /\ idx' = NextIndex(idx, Len(cands))
    /\ UNCHANGED <<families, config, cands, pref_outcome, queries,
                   query_outcome, result, play_outcome, handle_mixer, fed,
                   notOpenVars>>

\* find_map returned None: .ok_or(StreamError::BuildStreamError(err))
Exhausted ==
    /\ pc_open = "cands"
    /\ idx > Len(cands)
    /\ pc_open' = "done"
    /\ nego' = ExhaustedError(pref_outcome, last_outcome)
    /\ result' = ExhaustedError(pref_outcome, last_outcome)
    /\ UNCHANGED <<families, config, cands, idx, tried, pref_outcome,
                   last_outcome, queries, query_outcome, built, mixVars,
                   notOpenVars>>

\* try_from_device_config: _stream.play() with outcome r, then the handle
Play(r) ==
    /\ pc_open = "play"
    /\ pc_open' = "done"
    /\ play_outcome' = r
    /\ result' = PlayResult(r)
    /\ handle_mixer' = IF PlayResult(r) = Ok THEN Downgrade(out_stream)
                       ELSE handle_mixer
    /\ UNCHANGED <<families, config, cands, idx, tried, pref_outcome,
                   last_outcome, queries, query_outcome, nego, built,
                   mixers, out_stream, fed, notOpenVars>>

\* play_raw on the handle the open returned: mixer.add(source) on the
\* mixer the handle upgrades to
SubmitSource ==
    /\ pc_open = "done"
    /\ result = Ok
    /\ handle_mixer \notin fed
    /\ fed' = fed \cup {handle_mixer}
    /\ UNCHANGED <<families, config, pc_open, cands, idx, tried,
                   pref_outcome, last_outcome, queries, query_outcome, nego,
                   built, result, play_outcome, mixers, out_stream,
                   handle_mixer, notOpenVars>>

NextOpen ==
    \/ \E r \in QueryOutcomes : TryFromDevice(r)
    \/ TryFromDeviceConfig
    \/ \E r \in BuildOutcomes : BuildPreferred(r)
    \/ \E q \in QueryOutcomes : QuerySupported(q)
    \/ \E r \in BuildOutcomes : TryCandidate(r)
    \/ Exhausted
    \/ \E r \in {"ok", "DeviceNotAvailable"} : Play(r)
    \/ SubmitSource

SpecOpen == InitOpen /\ [][NextOpen]_vars

\* ---------------------------------------------------------------------
\* OutputStream::try_default over the devices of the host
\* ---------------------------------------------------------------------
Devices == 1..MaxDevices
DeviceLists == UNION {[1..n -> Devices] : n \in 0..MaxDevices}

\* what OutputStream::try_from_device can return
OpenErrors ==
    {Err("DefaultStreamConfigError", "BackendSpecific"),
     Err("SupportedStreamConfigsError", "BackendSpecific"),
     Err("PlayStreamError", "DeviceNotAvailable")}
    \cup {Err("BuildStreamError", e) : e \in BuildErrors}
OpenResults == {Ok} \cup OpenErrors

\* .ok_or(original_err) and Err(_) => return Err(original_err)
FinalError_latest(orig, latest) == latest
FinalError(orig, latest) == orig

InitDefault ==
    /\ FadeIdle
    /\ OpenIdle
    /\ StreamIdle
    /\ default_device \in {0} \cup Devices
    /\ output_devices \in [res : QueryOutcomes, list : DeviceLists]
    /\ pc_default = "start"
    /\ dev_idx = 1
    /\ opened = <<>>
    /\ failed = 0
    /\ original_err = Pending
    /\ first_outcome = Pending
    /\ latest_outcome = Pending
    /\ stream_device = 0
    /\ default_result = Pending

\* cpal::default_host().default_output_device().ok_or(NoDevice)?
DefaultDevice ==
    /\ pc_default = "start"
    /\ IF default_device = 0
       THEN /\ pc_default' = "done"
            /\ default_result' = Err("NoDevice", "")
       ELSE /\ pc_default' = "default"
            /\ default_result' = default_result
    /\ UNCHANGED <<default_device, output_devices, dev_idx, opened, failed,
                   original_err, first_outcome, latest_outcome,
                   stream_device, notHostVars>>

\* Self::try_from_device(&default_device) returning r, then or_else
OpenDefault(r) ==
    /\ pc_default = "default"
    /\ opened' = Append(opened, default_device)
    /\ first_outcome' = r
    /\ latest_outcome' = r
    /\ IF r = Ok
       THEN /\ pc_default' = "done"
            /\ default_result' = Ok
            /\ stream_device' = default_device
            /\ UNCHANGED <<original_err, failed>>
       ELSE /\ pc_default' = "enum"
            /\ original_err' = r
            /\ failed' = failed + 1
            /\ UNCHANGED <<default_result, stream_device>>
    /\ UNCHANGED <<default_device, output_devices, dev_idx, notHostVars>>

\* cpal::default_host().output_devices()
Enumerate ==
    /\ pc_default = "enum"
    /\ IF output_devices.res = "ok"
       THEN /\ pc_default' = "devices"
            /\ dev_idx' = 1
            /\ default_result' = default_result
       ELSE /\ pc_default' = "done"
            /\ dev_idx' = dev_idx
            /\ default_result' = FinalError(original_err, latest_outcome)
    /\ UNCHANGED <<default_device, output_devices, opened, failed,
                   original_err, first_outcome, latest_outcome,
                   stream_device, notHostVars>>

\* one step of devices.find_map(|d| Self::try_from_device(&d).ok())
OpenNext(r) ==
    /\ pc_default = "devices"
    /\ dev_idx <= Len(output_devices.list)
    /\ opened' = Append(opened, output_devices.list[dev_idx])
    /\ latest_outcome' = r
    /\ IF r = Ok
       THEN /\ pc_default' = "done"
            /\ default_result' = Ok
            /\ stream_device' = output_devices.list[dev_idx]
            /\ UNCHANGED <<dev_idx, failed>>
       ELSE /\ dev_idx' = dev_idx + 1
            /\ failed' = failed + 1
            /\ UNCHANGED <<pc_default, default_result, stream_device>>
    /\ UNCHANGED <<default_device, output_devices, original_err,
                   first_outcome, notHostVars>>

\* find_map returned None: .ok_or(original_err)
NoDeviceOpened ==
    /\ pc_default = "devices"
    /\ dev_idx > Len(output_devices.list)
    /\ pc_default' = "done"
    /\ default_result' = FinalError(original_err, latest_outcome)
    /\ UNCHANGED <<default_device, output_devices, dev_idx, opened, failed,
                   original_err, first_outcome, latest_outcome,
                   stream_device, notHostVars>>

NextDefault ==
    \/ DefaultDevice
    \/ \E r \in OpenResults : OpenDefault(r)
    \/ Enumerate
    \/ \E r \in OpenResults : OpenNext(r)
    \/ NoDeviceOpened

SpecDefault == InitDefault /\ [][NextDefault]_vars

\* ---------------------------------------------------------------------
\* A stream that was opened, its handles and its callback
\* ---------------------------------------------------------------------
\* the state right after try_from_device_config / GstOutputStream::
\* try_from_device returned Ok((out, handle))
InitStream ==
    /\ FadeIdle
    /\ OpenIdle
    /\ HostIdle
    /\ backend \in {"cpal", "gst"}
    /\ sample_format \in IF backend = "gst" THEN {"F32"} ELSE SampleFormats
    /\ rx_strong \in {0, 1}
    /\ stream_alive = TRUE
    /\ callback_alive = TRUE
    /\ cloned = FALSE
    /\ call = [h \in Handles |-> NoCall]
    /\ submitted = 0
    /\ mixer = <<>>
    /\ added = [i \in 1..MaxSources |-> 0]
    /\ buf = NoBuf
    /\ delivered_late = FALSE
    /\ once = NoOnce

\* OutputStreamHandle::clone
CloneHandle ==
    /\ backend # "off"
    /\ ~cloned
    /\ cloned' = TRUE
    /\ UNCHANGED <<backend, sample_format, rx_strong, stream_alive,
                   callback_alive, call, submitted, mixer, added, buf,
                   delivered_late, once, notStreamVars>>

\* the stream object is dropped: its Arc<mixer> goes; cpal::Stream drops
\* the callback with it, the appsrc keeps the need-data callback
DropStream ==
    /\ stream_alive
    /\ stream_alive' = FALSE
    /\ callback_alive' = (backend = "gst")
    /\ UNCHANGED <<backend, sample_format, rx_strong, cloned, call,
                   submitted, mixer, added, buf, delivered_late, once,
                   notStreamVars>>

\* play_raw on handle h, up to self.mixer.upgrade().ok_or(NoDevice)?
PlayRawUpgrade(h) ==
    LET strong == Strong(stream_alive, callback_alive, rx_strong, call)
        inflight == \E g \in Handles : call[g].state = "upgraded"
    IN  /\ h \in LiveHandles(cloned)
        /\ call[h].state # "upgraded"
        /\ submitted < MaxSources
        /\ submitted' = submitted + 1
        /\ call' = [call EXCEPT ![h] =
                      [state |-> IF Upgrade(strong) THEN "upgraded"
                                 ELSE "returned",
                       id |-> submitted + 1,
                       late |-> ~stream_alive,
                       overlap |-> inflight,
                       ret |-> IF Upgrade(strong) THEN "none"
                               ELSE "NoDevice"]]
        /\ UNCHANGED <<backend, sample_format, rx_strong, stream_alive,
                       callback_alive, cloned, mixer, added, buf,
                       delivered_late, once, notStreamVars>>

\* play_raw on handle h: mixer.add(source); Ok(())
PlayRawAdd(h, body) ==
    /\ h \in LiveHandles(cloned)
    /\ call[h].state = "upgraded"
    /\ mixer' = MixerAdd(mixer, [id |-> call[h].id, samples |-> body])
    /\ added' = [added EXCEPT ![call[h].id] = @ + 1]
    /\ call' = [call EXCEPT ![h].state = "returned", ![h].ret = "Ok"]
    /\ UNCHANGED <<backend, sample_format, rx_strong, stream_alive,
                   callback_alive, cloned, submitted, buf, delivered_late,
                   once, notStreamVars>>

\* play_once on a handle: decode, Sink::try_new (a play_raw of the sink's
\* queue), sink.append(input)
PlayOnce(decodable, body) ==
    LET strong == Strong(stream_alive, callback_alive, rx_strong, call)
        ret == PlayOnceResult(decodable, strong)
        inflight == \E g \in Handles : call[g].state = "upgraded"
    IN  /\ backend # "off"
        /\ submitted < MaxSources
        /\ submitted' = submitted + 1
        /\ once' = [ret |-> ret, decodable |-> decodable,
                    late |-> ~stream_alive, overlap |-> inflight]
        /\ IF ret = "Ok"
           THEN /\ mixer' = MixerAdd(mixer, [id |-> submitted + 1,
                                             samples |-> body])
                /\ added' = [added EXCEPT ![submitted + 1] = @ + 1]
           ELSE UNCHANGED <<mixer, added>>
        /\ UNCHANGED <<backend, sample_format, rx_strong, stream_alive,
                       callback_alive, cloned, call, buf, delivered_late,
                       notStreamVars>>

\* the output callback (cpal data callback, appsrc need-data) is invoked
\* for a buffer of n slots
Callback(n) ==
    LET r == PollSlots(mixer, n)
    IN  /\ callback_alive
        /\ mixer' = r.mixer
        /\ buf' = [n |-> n, polls |-> r.polls,
                   data |-> [i \in 1..n |->
                               WriteSlot(sample_format, r.polls[i])]]
        /\ delivered_late' =
              (delivered_late
               \/ (~stream_alive /\ \E i \in 1..n : r.polls[i] # None))
        /\ UNCHANGED <<backend, sample_format, rx_strong, stream_alive,
                       callback_alive, cloned, call, submitted, added,
                       once, notStreamVars>>

NextStream ==
    \/ CloneHandle
    \/ DropStream
    \/ \E h \in Handles : PlayRawUpgrade(h)
    \/ \E h \in Handles, b \in SourceBodies : PlayRawAdd(h, b)
    \/ \E dec \in BOOLEAN, b \in SourceBodies : PlayOnce(dec, b)
    \/ \E n \in 1..MaxBuffer : Callback(n)

SpecStream == InitStream /\ [][NextStream]_vars

\* ---------------------------------------------------------------------
\* Properties of the fade filter
\* ---------------------------------------------------------------------
\* the ramp fraction clamped to [0, 1]
Clamp(r) == IF RatLt0(r) THEN Zero ELSE IF RatGt1(r) THEN One ELSE r

PollDone == pc_next = "idle" /\ last.path # "none"

\* C1: while a ramp is in progress after a redirect, the amplitude applied
\* to the sample of a poll equals the ramp fraction of that poll, clamped
\* to [0,1]: remaining/total for Out, 1 - remaining/total otherwise.
C1_RampAmplitude ==
    (PollDone /\ redirected /\ last.path = "ramp")
        => /\ RatEq(f, Clamp(Factor(current_direction, last.rem_used, total_ns)))
           /\ last.in # None =>
                 RatEq(last.out[1],
                       Amplify(last.in[1],
                               Clamp(Factor(current_direction, last.rem_used,
                                            total_ns))))

\* C2: once a fade-out ramp has run to completion the applied amplitude
\* is 0.0, and it stays 0.0 while the direction is Out.
C2_FadeOutEndsSilent ==
    (PollDone /\ current_direction = Out /\ total_ns > 0 /\ remaining_ns <= 0)
        => /\ RatEq(f, Zero)
           /\ last.in # None => last.out[1][1] = 0

QuietPoll == PollDone /\ ~last.raced /\ ~recent.any

\* C15: a direction stored by change_direction is adopted no later than
\* the next poll that starts after the store: after a poll that no store
\* overlapped, and with no store since, current_direction is the value
\* stored last (and the ramp was restarted if that poll saw a change).
\* change_direction can be called in every state, also after the
\* Fadeable was dropped.
C15_StoreSeenByNextPoll ==
    /\ QuietPoll =>
          /\ current_direction = final_store
          /\ last.diff => last.rem_used = total_ns
    /\ \A d \in FadeDirection : ENABLED ChangeDirection(d)

C15_Witness ==
    /\ QuietPoll /\ called /\ last.diff
    /\ current_direction = Out /\ final_store = Out
    /\ last.rem_start < total_ns

\* C17: each poll reads the requested direction once, so the value
\* compared with current_direction is the value adopted and a poll that
\* resets remaining_ns is a poll that changes current_direction.
C17_ComparedIsAdopted ==
    (PollDone /\ last.diff) => current_direction = seen

\* C18: when several stores land between two polls, the later poll
\* works on the last stored value only: it compares and adopts that
\* value, and when that value is current_direction already it neither
\* resets remaining_ns nor changes current_direction.
C18_LatestValueWins ==
    (QuietPoll /\ last.superseded)
        => /\ seen = final_store
           /\ current_direction = final_store
           /\ last.rem_used = IF last.diff THEN total_ns ELSE last.rem_start

C18_Witness ==
    /\ QuietPoll /\ last.superseded /\ ~last.diff
    /\ current_direction = final_store
    /\ 0 < last.rem_start /\ last.rem_start < total_ns
    /\ last.rem_used = last.rem_start

C20_FastPathFrame ==
    [][(/\ pc_next = "loaded" /\ pc_next' = "idle"
        /\ remaining_ns <= 0 /\ seen = current_direction)
          => /\ remaining_ns' = remaining_ns
             /\ f' = f
             /\ current_direction' = current_direction
             /\ last'.path = "fast"
             /\ last'.in # None
                   => last'.out = Some(Amplify(last'.in[1], f))]_vars

C20_Witness ==
    /\ PollDone /\ last.path = "fast" /\ ~last.diff
    /\ total_ns > 0 /\ remaining_ns < 0
    /\ redirected /\ last.in # None

\* C11: try_default returns NoDevice without any open attempt when the
\* host has no default output device; otherwise it opens the default
\* device first, on its failure the enumerated devices in order up to
\* the first that opens, whose stream it returns; when none opens or
\* the enumeration fails it returns the error of the default device's
\* attempt.
C11_DefaultThenDevicesInOrder ==
    /\ default_device = 0
          => /\ opened = <<>>
             /\ pc_default = "done" => default_result = Err("NoDevice", "")
    /\ opened # <<>> => opened[1] = default_device
    /\ Len(opened) > 1 => output_devices.res = "ok"
    /\ \A k \in 2..Len(opened) : opened[k] = output_devices.list[k - 1]
    /\ (pc_default = "done" /\ default_result = Ok)
          => /\ failed = Len(opened) - 1
             /\ stream_device = opened[Len(opened)]
    /\ (pc_default = "done" /\ default_result # Ok /\ default_device # 0)
          => /\ default_result = first_outcome
             /\ default_result \in OpenErrors
             /\ failed = Len(opened)
             /\ Len(opened) = IF output_devices.res = "ok"
                               THEN 1 + Len(output_devices.list) ELSE 1

C11_Witness ==
    /\ pc_default = "done" /\ default_device # 0
    /\ output_devices.res = "ok" /\ Len(output_devices.list) = 2
    /\ Len(opened) = 3
    /\ first_outcome = Err("BuildStreamError", "DeviceNotAvailable")
    /\ latest_outcome = Err("PlayStreamError", "DeviceNotAvailable")
    /\ default_result = first_outcome

\* ---------------------------------------------------------------------
\* Properties of the stream negotiation
\* ---------------------------------------------------------------------
OpenDone == pc_open = "done"

C6_PreferredSuccessIsOnlyAttempt ==
    pref_outcome = "ok"
        => /\ queries = 0 /\ query_outcome = "none"
           /\ tried = <<config>>
           /\ built = 1
           /\ pc_open \in {"play", "done"}

C6_Witness ==
    /\ OpenDone /\ result = Ok /\ pref_outcome = "ok"
    /\ families # <<>>

\* every build attempt has been made and has failed
AllFailed ==
    /\ OpenDone /\ query_outcome = "ok" /\ built = 0
    /\ Len(tried) = Len(cands) + 1

\* C7: when the preferred configuration and every candidate fail to
\* build, the error returned is the build error of the preferred
\* attempt, also when a candidate failed with a different error.
C7_OriginalErrorReturned ==
    (OpenDone /\ query_outcome = "ok" /\ built = 0)
        => /\ AllFailed
           /\ result = Err("BuildStreamError", pref_outcome)
           /\ nego = result

C7_Witness ==
    /\ AllFailed /\ cands # <<>>
    /\ pref_outcome = "DeviceNotAvailable"
    /\ last_outcome = "StreamConfigNotSupported"
    /\ result = Err("BuildStreamError", "DeviceNotAvailable")

\* C8 as stated, for an open that got as far as a build attempt: an error
\* is surfaced only after every candidate has been attempted and has
\* failed, and it is the first build failure.
C8_ErrorOnlyAfterExhaustion ==
    (OpenDone /\ result.tag = "Err" /\ tried # <<>>)
        => /\ AllFailed
           /\ result = Err("BuildStreamError", pref_outcome)

\* C8 amended: a build error is surfaced only after the preferred
\* configuration and every candidate have been attempted and have failed,
\* each build failure advancing to the next candidate, and it is the
\* first failure; a failure of default_output_config, of
\* supported_output_configs or of play is surfaced at once.
C8_BuildErrorOnlyAfterExhaustion ==
    /\ (OpenDone /\ result.tag = "Err" /\ result.kind = "BuildStreamError")
          => (AllFailed /\ result.detail = pref_outcome)
    /\ (pc_open = "cands" /\ built = 0) => idx = Len(tried)
    /\ (OpenDone /\ result.tag = "Err" /\ result.kind # "BuildStreamError")
          => \/ /\ result.kind = "DefaultStreamConfigError"
                /\ tried = <<>>
             \/ /\ result.kind = "SupportedStreamConfigsError"
                /\ query_outcome \notin {"none", "ok"}
                /\ Len(tried) = 1
             \/ /\ result.kind = "PlayStreamError"
                /\ built = Len(tried) /\ built > 0

C8_Witness ==
    /\ AllFailed /\ Len(cands) >= 4
    /\ result.tag = "Err" /\ result.kind = "BuildStreamError"

Straddles(sf) == sf.min < HZ_44100 /\ HZ_44100 < sf.max
PositionsOf(k) == {i \in DOMAIN cands : cands[i].fam = k}
Preferred(a, b) ==
    \/ families[a].q > families[b].q
    \/ (families[a].q = families[b].q /\ a < b)

\* C9: the candidate list holds, per family, the maximum rate, then
\* 44100 iff min < 44100 < max, then the minimum rate (three candidates
\* for a straddling family, two otherwise, identical ones when
\* min = max); the families come most preferred first with ties in the
\* reported order, and the list is empty only for an empty report.
C9_CandidateList ==
    query_outcome = "ok" =>
        /\ \A i \in DOMAIN cands : cands[i].fam \in DOMAIN families
        /\ \A k \in DOMAIN families :
              LET pos == PositionsOf(k)
                  lo == CHOOSE i \in pos : \A j \in pos : i <= j
                  n == IF Straddles(families[k]) THEN 3 ELSE 2
              IN  /\ Cardinality(pos) = n
                  /\ pos = lo..(lo + n - 1)
                  /\ cands[lo].rate = families[k].max
                  /\ cands[lo + n - 1].rate = families[k].min
                  /\ n = 3 => cands[lo + 1].rate = HZ_44100
        /\ \A i, j \in DOMAIN cands :
              (i < j /\ cands[i].fam # cands[j].fam)
                  => Preferred(cands[i].fam, cands[j].fam)
        /\ (families # <<>>) => (cands # <<>>)

C9_Witness ==
    /\ query_outcome = "ok" /\ Len(families) = 2
    /\ families[1].q < families[2].q
    /\ Straddles(families[2])
    /\ families[1].min = families[1].max
    /\ Len(cands) = 5 /\ cands[1].fam = 2 /\ cands[5].fam = 1

\* C10 as stated: a successful query that reports no family makes the
\* open operation fail with a dedicated "no supported configurations"
\* error, which is not the build error of the preferred configuration.
C10_DedicatedNoConfigsError ==
    (OpenDone /\ query_outcome = "ok" /\ families = <<>>)
        => /\ result.tag = "Err"
           /\ result.kind = "NoSupportedConfigs"

\* C10 amended: a successful query that reports no family yields an empty
\* candidate list, no further build attempt is made and the open
\* operation returns the build error of the preferred configuration.
C10_EmptyReportReturnsOriginalError ==
    (query_outcome = "ok" /\ families = <<>>)
        => /\ cands = <<>>
           /\ tried = <<config>>
           /\ pc_open \in {"cands", "done"}
           /\ OpenDone => result = Err("BuildStreamError", pref_outcome)

C10_Witness ==
    /\ OpenDone /\ query_outcome = "ok" /\ families = <<>>
    /\ result.kind = "BuildStreamError"

\* ---------------------------------------------------------------------
\* Properties of stream handles and of the output callback
\* ---------------------------------------------------------------------
\* C12: after the OutputStream has been dropped every play_raw call on a
\* handle or a clone returns NoDevice and adds its source to no mixer,
\* and handles never keep the mixer alive; a call made while the stream
\* is alive returns Ok and adds its source exactly once.
C12_NoDeviceAfterDrop ==
    backend = "cpal" =>
        /\ \A h \in Handles :
              /\ (call[h].state # "idle" /\ call[h].late) =>
                    /\ call[h].state = "returned"
                    /\ call[h].ret = "NoDevice"
                    /\ added[call[h].id] = 0
              /\ (call[h].state = "returned" /\ ~call[h].late) =>
                    /\ call[h].ret = "Ok"
                    /\ added[call[h].id] = 1
        /\ \A i \in 1..MaxSources : added[i] <= 1

ExpectedSilence(fmt) ==
    IF fmt \in UnsignedFormats THEN <<128, -1>> ELSE <<0, 0>>

C16_GstDropEndsPlayback ==
    backend = "gst" =>
        /\ ~delivered_late
        /\ ~stream_alive => ~callback_alive
        /\ \A h \in Handles :
              (call[h].state = "returned" /\ call[h].late /\ ~call[h].overlap)
                 => call[h].ret = "NoDevice"
\* ---------------------------------------------------------------------
\* Properties of the errors and of the mixer of an open
\* ---------------------------------------------------------------------
\* C21: when the preferred build fails and the query of the supported
\* configurations fails too, no further build is attempted and the query
\* error is returned, not the build error; when a configuration builds
\* but the stream fails to start, the start error is returned and no
\* further candidate is tried.
C21_QueryAndPlayErrorsSurface ==
    /\ (pref_outcome \notin {"none", "ok"}
        /\ query_outcome \notin {"none", "ok"})
          => /\ OpenDone
             /\ tried = <<config>>
             /\ mixers = 1
             /\ result = Err("SupportedStreamConfigsError", query_outcome)
             /\ result # Err("BuildStreamError", pref_outcome)
    /\ play_outcome \notin {"none", "ok"}
          => /\ OpenDone
             /\ built > 0 /\ built = Len(tried)
             /\ result = Err("PlayStreamError", play_outcome)
             /\ handle_mixer = 0

\* the query failed on a device that has configurations to report
C21_Witness ==
    /\ OpenDone
    /\ pref_outcome = "DeviceNotAvailable"
    /\ query_outcome = "BackendSpecific"
    /\ Len(families) >= 2
    /\ result = Err("SupportedStreamConfigsError", "BackendSpecific")

\* C22: one mixer is created per build attempt, and the handle of a
\* successful open refers to the mixer polled by the callback of the
\* stream that was built: a source submitted with play_raw never goes to
\* the mixer of a failed attempt, whichever attempt succeeded.
C22_HandleRefersToBuiltMixer ==
    /\ mixers = Len(tried)
    /\ (OpenDone /\ result = Ok)
          => /\ handle_mixer = built
             /\ out_stream.polled = built
             /\ handle_mixer = out_stream.polled
    /\ result # Ok => handle_mixer = 0
    /\ \A m \in fed : m = built /\ m = out_stream.polled

\* a source went in after the third build attempt was the one to succeed
C22_Witness ==
    /\ OpenDone /\ result = Ok
    /\ built = 3 /\ mixers = 3
    /\ fed = {3}
====
